---- MODULE Spec2Model ----
(***************************************************************************)
(* Model of reduced-ui-animations-mod-generator (src/main.rs).             *)
(*                                                                         *)
(* Two state machines share the definitions of the patch engine:           *)
(*   SpecPatch  patch_xaml on one document, one loop iteration of          *)
(*              patch_xaml_recursively per step, followed by patching the  *)
(*              serialized output again;                                   *)
(*   Spec       main: generate_mod over an installation, then inspecting,  *)
(*              clearing and writing the destination directory.            *)
(***************************************************************************)
EXTENDS Integers, Sequences, FiniteSets, TLC

VARIABLES
    \* ---- patch_xaml on one document (SpecPatch) ----
    nodes,      \* the DOM: node id -> node; RefNode is a node id
    stack,      \* activations of patch_xaml_recursively, innermost last
    status,     \* "Running", or what patch_xaml returned: "None" / "Some"
    output,     \* the String inside Some(..), as a sequence of markup tokens
    input,      \* the DOM as read_xml built it for this pass
    removed,    \* ids logged by info!("Removing child node: ..") in this pass
    rewritten,  \* ids logged by info!("Rewriting fade brush element")
    pass,       \* "first", or "again" when the input is an earlier output
    \* ---- main (Spec) ----
    installation, \* ReadDirectory: directory -> set of FileEntry
    pc,           \* position in main / generate_mod / modify_wpfg
    dirIdx,       \* 0: wpfg itself, 1..4: position in the subdirectory list
    remaining,    \* FileEntry values the current iterator has not yielded yet
    cur,          \* `entries` of the running modify_xaml_files
    wpfgEntries,  \* `entries` of modify_wpfg
    modEntries,   \* `entries` of generate_mod
    dest,         \* the destination directory on disk
    written,      \* create_file calls of this run, in order
    prevMod       \* the Directory generate_mod returned in the run before

patchVars == <<nodes, stack, status, output, input, removed, rewritten, pass>>
mainVars == <<installation, pc, dirIdx, remaining, cur, wpfgEntries, modEntries,
              dest, written, prevMod>>
vars == <<patchVars, mainVars>>

(***************************************************************************)
(* Bounds of the model.                                                    *)
(***************************************************************************)
MaxNodes == 3
MaxSeed == 2
MaxFiles == 2

(***************************************************************************)
(* The DOM.                                                                *)
(***************************************************************************)
GENERATED_MOD_NAME == "Reduced UI Animations"
blur_effect == "local:Age2BlurEffect"
swipe_effect == "local:Age2SwipeEffect"
rectangle == "Rectangle"

None == "None"
AttrNames == {"x:Name", "Fill", "Visibility", "Canvas.Left", "Canvas.Top",
              "Height", "Width"}
NoAttrs ==
    "x:Name" :> None @@ "Fill" :> None @@ "Visibility" :> None
    @@ "Canvas.Left" :> None @@ "Canvas.Top" :> None
    @@ "Height" :> None @@ "Width" :> None

\* The attribute map of a tag written with the <<name, value>> pairs s.
RECURSIVE AttrsFrom(_, _)
AttrsFrom(s, k) ==
    IF k > Len(s) THEN NoAttrs ELSE (s[k][1] :> s[k][2]) @@ AttrsFrom(s, k + 1)
Attrs(s) == AttrsFrom(s, 1)

DocumentNode ==
    [kind |-> "document", name |-> "", attrs |-> NoAttrs, text |-> "",
     children |-> <<>>]
ElementNode(name, attrs) ==
    [kind |-> "element", name |-> name, attrs |-> attrs, text |-> "",
     children |-> <<>>]
CommentNode(text) ==
    [kind |-> "comment", name |-> "", attrs |-> NoAttrs, text |-> text,
     children |-> <<>>]
TextNode(text) ==
    [kind |-> "text", name |-> "", attrs |-> NoAttrs, text |-> text,
     children |-> <<>>]

node_name(n) ==
    CASE n.kind = "element" -> n.name
      [] n.kind = "comment" -> "#comment"
      [] n.kind = "text" -> "#text"
      [] OTHER -> "#document"

get_attribute(n, a) == n.attrs[a]
set_attribute(n, a, v) == [n EXCEPT !.attrs[a] = v]

Range(s) == {s[k] : k \in 1..Len(s)}
IndexOf(s, x) == CHOOSE k \in 1..Len(s) : s[k] = x /\ \A j \in 1..(k - 1) : s[j] # x

\* Node::replace_child: new_child takes old_child's place in the child list.
replace_child_detached(ns, parent, new_child, old_child) == ns
replace_child_at_end(ns, parent, new_child, old_child) ==
    [ns EXCEPT ![parent].children =
        Append(SelectSeq(ns[parent].children, LAMBDA c : c # old_child), new_child)]
replace_child(ns, parent, new_child, old_child) ==
    IF old_child \notin Range(ns[parent].children)
    THEN ns
    ELSE [ns EXCEPT ![parent].children[IndexOf(ns[parent].children, old_child)] =
                        new_child]

\* Document::create_comment with the text formatted at main.rs:140-143.
create_comment(name) ==
    CommentNode("The mod " \o GENERATED_MOD_NAME \o " replaced an element here: "
                \o name)

is_fade_brush_any_tag(n) ==
    get_attribute(n, "x:Name") # None /\ get_attribute(n, "x:Name") = "Fade"
is_fade_brush_any_name(n) ==
    node_name(n) = rectangle /\ get_attribute(n, "x:Name") # None
is_fade_brush_rectangle(n) ==
    IF node_name(n) # rectangle
    THEN FALSE
    ELSE IF get_attribute(n, "x:Name") # None
         THEN get_attribute(n, "x:Name") = "Fade"
         ELSE FALSE

(***************************************************************************)
(* patch_xaml_recursively as a machine over w = [nodes, stack, removed,    *)
(* rewritten, ret].  A frame is one activation: the node, the Vec that     *)
(* child_nodes() returned when the loop began, the loop position, and      *)
(* `result`.  ret is what the outermost activation returned.               *)
(***************************************************************************)
Frame(ns, node) ==
    [node |-> node, kids |-> ns[node].children, i |-> 1, result |-> "Unchanged"]

Top(w) == w.stack[Len(w.stack)]
HasChild(w) == w.stack # <<>> /\ Top(w).i <= Len(Top(w).kids)
Child(w) == Top(w).kids[Top(w).i]
SetTop(w, f) == [w.stack EXCEPT ![Len(w.stack)] = f]

IsRemoval(w) ==
    /\ HasChild(w)
    /\ \/ node_name(w.nodes[Child(w)]) = blur_effect
       \/ node_name(w.nodes[Child(w)]) = swipe_effect
IsRewrite(w) ==
    HasChild(w) /\ ~IsRemoval(w) /\ is_fade_brush_rectangle(w.nodes[Child(w)])
IsPlain(w) ==
    HasChild(w) /\ ~IsRemoval(w) /\ ~is_fade_brush_rectangle(w.nodes[Child(w)])
IsReturn(w) == w.stack # <<>> /\ ~HasChild(w)

\* main.rs:135-148: replace the child by a comment, result = Changed, continue.
RemoveChild(w) ==
    LET f == Top(w)
        child == Child(w)
        new_id == Len(w.nodes) + 1
        created == Append(w.nodes, create_comment(node_name(w.nodes[child])))
    IN [w EXCEPT
            !.nodes = replace_child(created, f.node, new_id, child),
            !.stack = SetTop(w, [f EXCEPT !.result = "Changed", !.i = f.i + 1]),
            !.removed = Append(w.removed, child)]

\* main.rs:152-156
rewrite_keeps_fill(n) ==
    set_attribute(set_attribute(set_attribute(set_attribute(n,
        "Canvas.Left", "-1"), "Canvas.Top", "-1"), "Height", "1"), "Width", "1")
rewrite_fade_brush(n) ==
    set_attribute(set_attribute(set_attribute(set_attribute(set_attribute(n,
        "Canvas.Left", "-1"), "Canvas.Top", "-1"), "Fill", "Green"),
        "Height", "1"), "Width", "1")

\* main.rs:149-159: rewrite the attributes, result = Changed, then recurse.
RewriteChild(w) ==
    LET f == Top(w)
        child == Child(w)
        ns == [w.nodes EXCEPT ![child] = rewrite_fade_brush(w.nodes[child])]
    IN [w EXCEPT
            !.nodes = ns,
            !.stack = Append(SetTop(w, [f EXCEPT !.result = "Changed"]),
                             Frame(ns, child)),
            !.rewritten = w.rewritten \cup {child}]

\* main.rs:159: recurse into a child no rule matched.
RecurseChild(w) ==
    [w EXCEPT !.stack = Append(w.stack, Frame(w.nodes, Child(w)))]

\* main.rs:159-162: how the caller's `result` takes the callee's.
merge_overwrites(mine, theirs) == theirs
merge_status(mine, theirs) ==
    IF theirs = "Changed" THEN "Changed" ELSE mine

\* main.rs:164 and 159-163: return `result`; the caller merges it and moves on.
ReturnToCaller(w) ==
    LET callee == Top(w)
        rest == SubSeq(w.stack, 1, Len(w.stack) - 1)
    IN IF rest = <<>>
       THEN [w EXCEPT !.stack = <<>>, !.ret = callee.result]
       ELSE LET caller == rest[Len(rest)]
            IN [w EXCEPT !.stack =
                    [rest EXCEPT ![Len(rest)] =
                        [caller EXCEPT
                            !.result = merge_status(caller.result, callee.result),
                            !.i = caller.i + 1]]]

StartWalk(ns) ==
    [nodes |-> ns, stack |-> <<Frame(ns, 1)>>, removed |-> <<>>, rewritten |-> {},
     ret |-> "Running"]

Step(w) ==
    CASE IsRemoval(w) -> RemoveChild(w)
      [] IsRewrite(w) -> RewriteChild(w)
      [] IsPlain(w) -> RecurseChild(w)
      [] OTHER -> ReturnToCaller(w)

RECURSIVE WalkToEnd(_)
WalkToEnd(w) == IF w.stack = <<>> THEN w ELSE WalkToEnd(Step(w))

\* The whole call patch_xaml_recursively(&mut root).
patch_xaml_recursively(ns) == WalkToEnd(StartWalk(ns))

(***************************************************************************)
(* Strings.  A String is a sequence of markup tokens; an element's         *)
(* attributes appear in a token in the order they were written.            *)
(***************************************************************************)
OpenTok(name, attrs) == [t |-> "open", name |-> name, attrs |-> attrs, text |-> ""]
EmptyTok(name, attrs) == [t |-> "empty", name |-> name, attrs |-> attrs, text |-> ""]
CloseTok(name) == [t |-> "close", name |-> name, attrs |-> <<>>, text |-> ""]
CommentTok(text) == [t |-> "comment", name |-> "", attrs |-> <<>>, text |-> text]
TextTok(text) == [t |-> "text", name |-> "", attrs |-> <<>>, text |-> text]

\* xml_dom keeps attributes in a HashMap (main.rs:168): iteration follows the
\* hash of the name under the map's seed.
AttrRank ==
    [a \in AttrNames |->
        CASE a = "Canvas.Left" -> 1
          [] a = "Canvas.Top" -> 2
          [] a = "Fill" -> 3
          [] a = "Height" -> 4
          [] a = "Visibility" -> 5
          [] a = "Width" -> 6
          [] OTHER -> 7]
HashModulus == 11
HashKey(a, seed) == (AttrRank[a] * seed) % HashModulus
Present(n) == {a \in AttrNames : n.attrs[a] # None}
AttrSeq(n, seed) ==
    LET P == Present(n)
        pos(a) == Cardinality({b \in P : HashKey(b, seed) < HashKey(a, seed)}) + 1
    IN [k \in 1..Cardinality(P) |->
            LET a == CHOOSE b \in P : pos(b) = k IN <<a, n.attrs[a]>>]

\* The elements whose attribute order depends on the seed of their map.
Seeded(ns) ==
    {id \in 1..Len(ns) : ns[id].kind = "element" /\ Cardinality(Present(ns[id])) > 1}
SeedChoices(ns) == [Seeded(ns) -> 1..MaxSeed]
SeedFor(seedOf, id) == IF id \in DOMAIN seedOf THEN seedOf[id] ELSE 1

RECURSIVE SerNode(_, _, _)
RECURSIVE SerList(_, _, _, _)
SerList(ns, kids, k, seedOf) ==
    IF k > Len(kids)
    THEN <<>>
    ELSE SerNode(ns, kids[k], seedOf) \o SerList(ns, kids, k + 1, seedOf)
SerNode(ns, id, seedOf) ==
    LET n == ns[id]
    IN CASE n.kind = "element" ->
              <<OpenTok(n.name, AttrSeq(n, SeedFor(seedOf, id)))>>
              \o SerList(ns, n.children, 1, seedOf)
              \o <<CloseTok(n.name)>>
         [] n.kind = "comment" -> <<CommentTok(n.text)>>
         [] n.kind = "text" -> <<TextTok(n.text)>>
         [] OTHER -> SerList(ns, n.children, 1, seedOf)

\* main.rs:167-170: root.to_string()
xml_to_string(ns, seedOf) == SerNode(ns, 1, seedOf)

\* xml_dom::parser::read_xml (main.rs:173): builds the DOM, or fails on markup
\* that is not well formed.
RECURSIVE ParseFrom(_, _, _, _)
ParseFrom(toks, k, ns, open) ==
    IF k > Len(toks)
    THEN [ok |-> Len(open) = 1, nodes |-> ns]
    ELSE LET t == toks[k]
             top == open[Len(open)]
             id == Len(ns) + 1
             add(n) == Append([ns EXCEPT ![top].children = Append(@, id)], n)
             bad == [ok |-> FALSE, nodes |-> ns]
         IN CASE t.t \in {"open", "empty"} ->
                   IF \/ \E i, j \in 1..Len(t.attrs) : i # j /\ t.attrs[i][1] = t.attrs[j][1]
                      \/ top = 1 /\ \E c \in Range(ns[1].children) : ns[c].kind = "element"
                   THEN bad
                   ELSE ParseFrom(toks, k + 1,
                                  add(ElementNode(t.name, Attrs(t.attrs))),
                                  IF t.t = "open" THEN Append(open, id) ELSE open)
              [] t.t = "close" ->
                   IF Len(open) = 1 \/ ns[top].name # t.name
                   THEN bad
                   ELSE ParseFrom(toks, k + 1, ns, SubSeq(open, 1, Len(open) - 1))
              [] t.t = "comment" -> ParseFrom(toks, k + 1, add(CommentNode(t.text)), open)
              [] OTHER ->
                   IF top = 1
                   THEN bad
                   ELSE ParseFrom(toks, k + 1, add(TextNode(t.text)), open)
read_xml(toks) == ParseFrom(toks, 1, <<DocumentNode>>, <<1>>)

(***************************************************************************)
(* SpecPatch: patch_xaml on one document.                                  *)
(***************************************************************************)
Labels ==
    { ElementNode(blur_effect, Attrs(<<<<"Visibility", "Hidden">>>>)),
      ElementNode(swipe_effect, Attrs(<<<<"x:Name", "Fade">>>>)),
      ElementNode(rectangle, Attrs(<<<<"x:Name", "Fade">>, <<"Fill", "X">>,
                                    <<"Visibility", "Hidden">>, <<"Width", "A">>>>)),
      ElementNode(rectangle, Attrs(<<<<"x:Name", "Other">>, <<"Fill", "X">>>>)),
      ElementNode(rectangle, Attrs(<<<<"Fill", "X">>>>)),
      ElementNode("Canvas", Attrs(<<<<"x:Name", "Fade">>, <<"Fill", "X">>>>)),
      CommentNode("a fade over the screen") }

SortedSeq(S) ==
    <<>> \o [k \in 1..Cardinality(S) |->
                CHOOSE x \in S : Cardinality({y \in S : y < x}) = k - 1]

\* The document with n nodes below the Document node, node i labelled lab[i]
\* and attached, in id order, under par[i].
BuildDoc(n, lab, par) ==
    <<>> \o [i \in 1..(n + 1) |->
        [(IF i = 1 THEN DocumentNode ELSE lab[i]) EXCEPT
            !.children = SortedSeq({j \in 2..(n + 1) : par[j] = i})]]

\* What read_xml can return: one document element, comments beside it, and
\* children only under elements.
Parents(n) == {par \in [2..(n + 1) -> 1..n] : \A i \in 2..(n + 1) : par[i] < i}
WellFormed(n, lab, par) ==
    /\ \A i \in 2..(n + 1) :
          IF par[i] = 1 THEN TRUE ELSE lab[par[i]].kind = "element"
    /\ Cardinality({i \in 2..(n + 1) : par[i] = 1 /\ lab[i].kind = "element"}) = 1
MainIdle ==
    /\ installation = <<>>
    /\ pc = "idle"
    /\ dirIdx = 0
    /\ remaining = {}
    /\ cur = {}
    /\ wpfgEntries = {}
    /\ modEntries = {}
    /\ dest = [kind |-> "absent", files |-> {}]
    /\ written = <<>>
    /\ prevMod = [known |-> FALSE, entries |-> {}]

InitPatch ==
    /\ \E n \in 1..MaxNodes : \E par \in Parents(n) : \E lab \in [2..(n + 1) -> Labels] :
          WellFormed(n, lab, par) /\ nodes = BuildDoc(n, lab, par)
    /\ stack = <<Frame(nodes, 1)>>
    /\ status = "Running"
    /\ output = <<>>
    /\ input = nodes
    /\ removed = <<>>
    /\ rewritten = {}
    /\ pass = "first"
    /\ MainIdle

W == [nodes |-> nodes, stack |-> stack, removed |-> removed,
      rewritten |-> rewritten, ret |-> "Running"]

Apply(w) ==
    /\ nodes' = w.nodes
    /\ stack' = w.stack
    /\ removed' = w.removed
    /\ rewritten' = w.rewritten
    /\ UNCHANGED <<status, output, input, pass, mainVars>>

Remove == status = "Running" /\ IsRemoval(W) /\ Apply(RemoveChild(W))
Rewrite == status = "Running" /\ IsRewrite(W) /\ Apply(RewriteChild(W))
Recurse == status = "Running" /\ IsPlain(W) /\ Apply(RecurseChild(W))
Return == status = "Running" /\ IsReturn(W) /\ Len(stack) > 1 /\ Apply(ReturnToCaller(W))

\* main.rs:174-177: the match on what the outermost call returned.
ReturnNone ==
    /\ status = "Running" /\ IsReturn(W) /\ Len(stack) = 1
    /\ ReturnToCaller(W).ret = "Unchanged"
    /\ status' = "None"
    /\ stack' = <<>>
    /\ UNCHANGED <<nodes, output, input, removed, rewritten, pass, mainVars>>
ReturnSome ==
    /\ status = "Running" /\ IsReturn(W) /\ Len(stack) = 1
    /\ ReturnToCaller(W).ret = "Changed"
    /\ \E seedOf \in SeedChoices(nodes) : output' = xml_to_string(nodes, seedOf)
    /\ status' = "Some"
    /\ stack' = <<>>
    /\ UNCHANGED <<nodes, input, removed, rewritten, pass, mainVars>>

\* patch_xaml called on the String an earlier call returned.
PatchAgain ==
    /\ status = "Some"
    /\ LET r == read_xml(output)
       IN /\ nodes' = r.nodes
          /\ input' = r.nodes
          /\ stack' = IF r.ok THEN <<Frame(r.nodes, 1)>> ELSE <<>>
          /\ status' = IF r.ok THEN "Running" ELSE "Panic"
    /\ output' = <<>>
    /\ removed' = <<>>
    /\ rewritten' = {}
    /\ pass' = "again"
    /\ UNCHANGED mainVars

NextPatch ==
    \/ Remove
    \/ Rewrite
    \/ Recurse
    \/ Return
    \/ ReturnNone
    \/ ReturnSome
    \/ PatchAgain

SpecPatch == InitPatch /\ [][NextPatch]_vars

(***************************************************************************)
(* Properties of patch_xaml (SpecPatch).                                   *)
(***************************************************************************)
Done == status \in {"None", "Some"}

IsEffect(n) ==
    n.kind = "element" /\ n.name \in {"local:Age2BlurEffect", "local:Age2SwipeEffect"}
IsFadeRectangle(n) ==
    n.kind = "element" /\ n.name = "Rectangle" /\ n.attrs["x:Name"] = "Fade"
NearMiss(n) ==
    /\ n.kind = "element"
    /\ \/ n.name = "Rectangle" /\ n.attrs["x:Name"] # "Fade"
       \/ n.name # "Rectangle" /\ n.attrs["x:Name"] = "Fade"

RECURSIVE Attached(_, _)
Attached(ns, id) ==
    {id} \cup UNION {Attached(ns, ns[id].children[k]) : k \in 1..Len(ns[id].children)}

\* Nodes of the input below the root with no effect element among their
\* proper ancestors.
RECURSIVE Survivors(_)
Survivors(id) ==
    {id} \cup
    (IF IsEffect(input[id])
     THEN {}
     ELSE UNION {Survivors(input[id].children[k]) : k \in 1..Len(input[id].children)})
Reached == Survivors(1)

Placeholder(tag) ==
    IF tag = "local:Age2BlurEffect"
    THEN "The mod Reduced UI Animations replaced an element here: local:Age2BlurEffect"
    ELSE "The mod Reduced UI Animations replaced an element here: local:Age2SwipeEffect"

\* C2: once the walk is over no effect element is left in the document, and
\* every effect element the walk could reach has been replaced, at its own
\* position among its siblings, by one new comment naming its tag.
C2_EffectsReplaced ==
    Done =>
        /\ \A id \in Attached(nodes, 1) : ~IsEffect(nodes[id])
        /\ \A p \in Reached :
              ~IsEffect(input[p]) =>
                 /\ Len(nodes[p].children) = Len(input[p].children)
                 /\ \A k \in 1..Len(input[p].children) :
                       LET old == input[p].children[k]
                           new == nodes[p].children[k]
                       IN IF IsEffect(input[old])
                          THEN /\ new > Len(input)
                               /\ nodes[new].kind = "comment"
                               /\ nodes[new].text = Placeholder(input[old].name)
                          ELSE new = old
        /\ Len(nodes) - Len(input) =
              Cardinality({id \in Reached : IsEffect(input[id])})
        /\ \A p, q \in Reached :
              \A k \in 1..Len(nodes[p].children), l \in 1..Len(nodes[q].children) :
                 nodes[p].children[k] = nodes[q].children[l] => p = q /\ k = l

C2_Witness ==
    /\ Done /\ pass = "first"
    /\ \E p \in Reached :
          \E k, l \in 1..Len(input[p].children) :
             /\ k < l
             /\ input[input[p].children[k]].name = "local:Age2SwipeEffect"
             /\ input[input[p].children[l]].name = "local:Age2BlurEffect"
             /\ nodes[p].children[k] # nodes[p].children[l]

\* C3: every Rectangle named Fade that the walk could reach has the five
\* attributes set, keeps its other attributes, and had its children walked.
C3_FadeRewritten ==
    Done =>
        \A id \in Reached :
            IsFadeRectangle(input[id]) =>
                /\ nodes[id].attrs["Canvas.Left"] = "-1"
                /\ nodes[id].attrs["Canvas.Top"] = "-1"
                /\ nodes[id].attrs["Fill"] = "Green"
                /\ nodes[id].attrs["Height"] = "1"
                /\ nodes[id].attrs["Width"] = "1"
                /\ \A a \in {"x:Name", "Visibility"} :
                      nodes[id].attrs[a] = input[id].attrs[a]
                /\ nodes[id].kind = "element" /\ nodes[id].name = "Rectangle"
                /\ \A k \in 1..Len(input[id].children) :
                      LET c == input[id].children[k]
                      IN /\ IsEffect(input[c]) => nodes[nodes[id].children[k]].kind = "comment"
                         /\ IsFadeRectangle(input[c]) => nodes[c].attrs["Fill"] = "Green"

C3_Witness ==
    /\ Done /\ pass = "first"
    /\ \E id \in Reached :
          /\ IsFadeRectangle(input[id])
          /\ input[id].attrs["Fill"] = "X" /\ input[id].attrs["Height"] = None
          /\ input[id].attrs["Visibility"] = "Hidden"
          /\ nodes[id].attrs["Fill"] = "Green"
          /\ \E k \in 1..Len(input[id].children) :
                /\ IsEffect(input[input[id].children[k]])
                /\ nodes[nodes[id].children[k]].kind = "comment"

NoRuleApplies ==
    \A id \in 1..Len(input) : ~IsEffect(input[id]) /\ ~IsFadeRectangle(input[id])

\* C4: a Rectangle not named Fade, and an element named Fade that is no
\* Rectangle, keep all their attributes and are never logged as rewritten; a
\* document holding no effect and no Fade rectangle is reported unchanged.
C4_Selectivity ==
    /\ \A id \in 1..Len(input) :
          NearMiss(input[id]) =>
             /\ nodes[id].attrs = input[id].attrs
             /\ id \notin rewritten
    /\ Done /\ NoRuleApplies => status = "None"

C4_Witness ==
    /\ Done /\ pass = "first" /\ status = "None"
    /\ \E id \in Reached : input[id].name = "Rectangle" /\ input[id].attrs["x:Name"] = "Other"
    /\ \E id \in Reached : input[id].name = "Canvas" /\ input[id].attrs["x:Name"] = "Fade"

\* C7: patching the output of an earlier patch removes nothing: no removal is
\* logged, no node is created, and every comment, the placeholders among
\* them, stays where and as it was parsed.
C7_RemovalIdempotent ==
    pass = "again" =>
        /\ removed = <<>>
        /\ Len(nodes) = Len(input)
        /\ \A id \in 1..Len(input) :
              /\ nodes[id].children = input[id].children
              /\ input[id].kind = "comment" => nodes[id] = input[id]
              /\ ~IsEffect(input[id])

C7_Witness ==
    /\ pass = "again" /\ Done
    /\ \E id \in Attached(nodes, 1) :
          /\ nodes[id].kind = "comment"
          /\ nodes[id].text = Placeholder("local:Age2SwipeEffect")
    /\ \E id \in Attached(nodes, 1) : nodes[id].name = "Canvas"

Fired == removed # <<>> \/ rewritten # {}
FileStatus ==
    CASE status = "Running" ->
            IF \E k \in 1..Len(stack) : stack[k].result = "Changed"
            THEN "Changed" ELSE "Unchanged"
      [] status = "Some" -> "Changed"
      [] OTHER -> "Unchanged"

\* C9: the status of the file is Changed exactly from the first rule that
\* fires on, no activation's result goes back from Changed to Unchanged, and
\* patch_xaml returns Some exactly when a rule fired.
C9_StatusMonotonic ==
    /\ [](status # "Panic" => (FileStatus = "Changed" <=> Fired))
    /\ [][status = "Running" =>
            /\ \A k \in 1..Len(stack) :
                  k <= Len(stack') /\ stack[k].result = "Changed"
                     => stack'[k].result = "Changed"
            /\ FileStatus = "Changed" => FileStatus' = "Changed"]_vars

C9_Witness ==
    /\ status = "Some" /\ pass = "first"
    /\ \E p \in Reached :
          \E k, l \in 1..Len(input[p].children) :
             /\ k < l
             /\ IsEffect(input[input[p].children[k]])
             /\ ~IsEffect(input[input[p].children[l]])
             /\ ~IsFadeRectangle(input[input[p].children[l]])
             /\ input[input[p].children[l]].kind = "element"
             /\ \A c \in Attached(input, input[p].children[l]) :
                   ~IsEffect(input[c]) /\ ~IsFadeRectangle(input[c])

\* The machine and the whole call agree.
WalkAgrees ==
    Done =>
        LET w == patch_xaml_recursively(input)
        IN /\ w.nodes = nodes
           /\ w.removed = removed
           /\ w.rewritten = rewritten
           /\ (w.ret = "Changed") = (status = "Some")

(***************************************************************************)
(* Files: bytes, decoding, and the patch of one file.                      *)
(***************************************************************************)
\* A Vec<u8> is a sequence whose items are markup tokens in UTF-8, the three
\* bytes of a byte-order mark, or a byte that is not valid UTF-8.
BomBytes == [t |-> "bom", name |-> "", attrs |-> <<>>, text |-> ""]
InvalidByte == [t |-> "invalid", name |-> "", attrs |-> <<>>, text |-> ""]

\* main.rs:287-289: encoding_rs::UTF_8.decode_with_bom_removal(..).0 drops a
\* leading byte-order mark, puts U+FFFD for malformed input, and .0 discards
\* the flag that says so.
decode_with_bom_removal(bytes) ==
    LET body == IF bytes # <<>> /\ bytes[1].t = "bom" THEN Tail(bytes) ELSE bytes
    IN <<>> \o [k \in 1..Len(body) |->
                  CASE body[k].t = "invalid" -> TextTok("U+FFFD")
                    [] body[k].t = "bom" -> TextTok("U+FEFF")
                    [] OTHER -> body[k]]

\* What a call can do: panic, return None, or return Some(value).
Panic == [panic |-> TRUE, some |-> FALSE, value |-> <<>>]
NoneResult == [panic |-> FALSE, some |-> FALSE, value |-> <<>>]
SomeResult(v) == [panic |-> FALSE, some |-> TRUE, value |-> v]

\* main.rs:172-178, the results the call can have.
patch_xaml(original_content) ==
    LET root == read_xml(original_content)
    IN IF ~root.ok
       THEN {Panic}
       ELSE LET w == patch_xaml_recursively(root.nodes)
            IN IF w.ret = "Unchanged"
               THEN {NoneResult}
               ELSE {SomeResult(xml_to_string(w.nodes, seedOf)) :
                        seedOf \in SeedChoices(w.nodes)}

\* main.rs:286-292; String -> Vec<u8> keeps the bytes.
modify_xaml_file(original_content) ==
    patch_xaml(decode_with_bom_removal(original_content))

(***************************************************************************)
(* Directory: BTreeMap<String, DirectoryEntry>, kept as the set of its     *)
(* entries, at most one per name.                                          *)
(***************************************************************************)
File(name, content) ==
    [name |-> name, kind |-> "File", content |-> content, entries |-> {}]
Subdirectory(name, entries) ==
    [name |-> name, kind |-> "Subdirectory", content |-> <<>>, entries |-> entries]

\* BTreeMap::insert: an entry already under the key is replaced.
insert(m, e) == {x \in m : x.name # e.name} \cup {e}
Keys(m) == {x.name : x \in m}

\* String's Ord compares the UTF-8 bytes.
NameBytes(n) ==
    CASE n = "_common" -> <<95, 99, 111, 109, 109, 111, 110>>
      [] n = "a.xaml" -> <<97, 46, 120, 97, 109, 108>>
      [] n = "dialog" -> <<100, 105, 97, 108, 111, 103>>
      [] n = "info.json" -> <<105, 110, 102, 111, 46, 106, 115, 111, 110>>
      [] n = "old.txt" -> <<111, 108, 100, 46, 116, 120, 116>>
      [] n = "panel" -> <<112, 97, 110, 101, 108>>
      [] n = "resources" -> <<114, 101, 115, 111, 117, 114, 99, 101, 115>>
      [] n = "screen" -> <<115, 99, 114, 101, 101, 110>>
      [] n = "tab" -> <<116, 97, 98>>
      [] OTHER -> <<119, 112, 102, 103>>
RECURSIVE LexLess(_, _)
LexLess(a, b) ==
    IF a = <<>> THEN b # <<>>
    ELSE IF b = <<>> THEN FALSE
    ELSE IF a[1] # b[1] THEN a[1] < b[1]
    ELSE LexLess(Tail(a), Tail(b))
NameLess(x, y) == LexLess(NameBytes(x), NameBytes(y))

\* Iteration over a BTreeMap: ascending keys.
InOrder(m) ==
    <<>> \o [k \in 1..Cardinality(m) |->
                CHOOSE e \in m : Cardinality({x \in m : NameLess(x.name, e.name)}) = k - 1]

\* main.rs:95-106: the create_file calls write_directory makes, in order.
RECURSIVE write_directory(_, _)
RECURSIVE WriteEntries(_, _, _)
WriteEntries(es, k, into) ==
    IF k > Len(es)
    THEN <<>>
    ELSE (IF es[k].kind = "File"
          THEN <<[path |-> Append(into, es[k].name), content |-> es[k].content]>>
          ELSE write_directory(es[k].entries, Append(into, es[k].name)))
         \o WriteEntries(es, k + 1, into)
write_directory(data, into) == WriteEntries(InOrder(data), 1, into)

\* main.rs:74-83: create_dir_all, then write.
create_file(d, call) ==
    [kind |-> "dir",
     files |-> {f \in d.files : f.path # call.path} \cup {call}]

(***************************************************************************)
(* Spec: main.                                                             *)
(***************************************************************************)
\* main.rs:311
SUBDIRECTORIES == <<"dialog", "panel", "screen", "tab">>
DirName(idx) == IF idx = 0 THEN "wpfg" ELSE SUBDIRECTORIES[idx]
DirNames == {"wpfg"} \cup Range(SUBDIRECTORIES)

\* main.rs:325-333
create_info_json ==
    <<TextTok("{\"Author\":\"Flauschfuchs\",\"CacheStatus\":0,\"Description\":\"Recreation of <b>0xDB No UI Transitions 1.4</b> by Flauschfuchs so that it works in May 2024.\",\"Title\":\"Reduced UI Animations\"}")>>

\* File contents the installation is drawn from (main.rs:182, 189, 211-218).
TinyDoc == <<BomBytes, OpenTok("Test", <<>>), CloseTok("Test")>>
SwipeDoc == <<OpenTok("Test", <<>>), EmptyTok(swipe_effect, <<>>), CloseTok("Test")>>
FadeDoc ==
    <<OpenTok("Test", <<>>),
      CommentTok("a fade over the screen, but under the modals"),
      EmptyTok(rectangle, << <<"x:Name", "Fade">>, <<"Fill", "X">>,
                             <<"Visibility", "Hidden">>, <<"Height", "B">>,
                             <<"Width", "A">> >>),
      CloseTok("Test")>>
BadUtf8Doc ==
    <<OpenTok("Test", <<>>), InvalidByte, EmptyTok(blur_effect, <<>>), CloseTok("Test")>>
UnclosedDoc == <<OpenTok("Test", <<>>)>>
Contents == {TinyDoc, SwipeDoc, FadeDoc, BadUtf8Doc, UnclosedDoc}

FileNames == {"a.xaml", "dialog"}
Populated == {"wpfg", "dialog"}
Slots == Populated \X FileNames
\* A directory whose read_dir fails (main.rs:36).
Unreadable == {"screen"}

StaleFile == [path |-> <<"old.txt">>, content |-> <<TextTok("old")>>]
Destinations ==
    { [kind |-> "absent", files |-> {}],
      [kind |-> "dir", files |-> {StaleFile}],
      [kind |-> "file", files |-> {}] }

PatchIdle ==
    /\ nodes = <<>>
    /\ stack = <<>>
    /\ status = "idle"
    /\ output = <<>>
    /\ input = <<>>
    /\ removed = <<>>
    /\ rewritten = {}
    /\ pass = "first"

Init ==
    /\ \E chosen \in {c \in SUBSET Slots : Cardinality(c) <= MaxFiles} :
          \E content \in [chosen -> Contents] :
             \E broken \in SUBSET Unreadable :
                installation =
                   [d \in DirNames |->
                       [readable |-> d \notin broken,
                        files |-> {[name |-> sl[2], content |-> content[sl]] :
                                      sl \in {x \in chosen : x[1] = d}}]]
    /\ dest \in Destinations
    /\ pc = "start"
    /\ dirIdx = 0
    /\ remaining = {}
    /\ cur = {}
    /\ wpfgEntries = {}
    /\ modEntries = {}
    /\ written = <<>>
    /\ prevMod = [known |-> FALSE, entries |-> {}]
    /\ PatchIdle

\* The order of main: generate_mod (404), metadata (407), remove_dir_all
\* (414), write_directory (427).
NextPcClearsFirst(event) ==
    CASE event = "start" -> "inspect"
      [] event = "cleared" -> "files"
      [] event = "generated" -> "write"
      [] OTHER -> "done"
NextPc(event) ==
    CASE event = "start" -> "files"
      [] event = "generated" -> "inspect"
      [] event = "cleared" -> "write"
      [] OTHER -> "done"

\* main.rs:344-353, and the call of modify_xaml_files at 310.
CreateInfoJson ==
    /\ pc = "start"
    /\ modEntries' = insert({}, File("info.json", create_info_json))
    /\ pc' = NextPc("start")
    /\ UNCHANGED <<installation, dirIdx, remaining, cur, wpfgEntries, dest, written,
                   prevMod, patchVars>>

\* main.rs:295-296: modify_xaml_files starts on a directory.
OpenDirectory ==
    /\ pc = "files"
    /\ installation[DirName(dirIdx)].readable
    /\ remaining' = installation[DirName(dirIdx)].files
    /\ cur' = {}
    /\ pc' = "file"
    /\ UNCHANGED <<installation, dirIdx, wpfgEntries, modEntries, dest, written,
                   prevMod, patchVars>>

\* main.rs:36: read_dir(..).expect("Tried to enumerate directory")
EnumerateFails ==
    /\ pc = "files"
    /\ ~installation[DirName(dirIdx)].readable
    /\ pc' = "panicked"
    /\ UNCHANGED <<installation, dirIdx, remaining, cur, wpfgEntries, modEntries, dest,
                   written, prevMod, patchVars>>

\* main.rs:298-304
stage_copies_unchanged(entries, file_entry, maybe_modified) ==
    IF maybe_modified.some
    THEN insert(entries, File(file_entry.name, maybe_modified.value))
    ELSE insert(entries, File(file_entry.name, file_entry.content))
stage(entries, file_entry, maybe_modified) ==
    IF maybe_modified.some
    THEN insert(entries, File(file_entry.name, maybe_modified.value))
    ELSE entries

\* main.rs:296-305: one iteration of the loop over enumerate_files().
NextFile(file_entry, maybe_modified) ==
    /\ pc = "file"
    /\ file_entry \in remaining
    /\ maybe_modified \in modify_xaml_file(file_entry.content)
    /\ remaining' = remaining \ {file_entry}
    /\ cur' = IF maybe_modified.panic THEN cur ELSE stage(cur, file_entry, maybe_modified)
    /\ pc' = IF maybe_modified.panic THEN "panicked" ELSE pc
    /\ UNCHANGED <<installation, dirIdx, wpfgEntries, modEntries, dest, written,
                   prevMod, patchVars>>

FileReplaced ==
    \E f \in remaining : \E r \in modify_xaml_file(f.content) :
        r.some /\ NextFile(f, r)
FileUnchanged ==
    \E f \in remaining : \E r \in modify_xaml_file(f.content) :
        ~r.some /\ ~r.panic /\ NextFile(f, r)
FilePanics ==
    \E f \in remaining : \E r \in modify_xaml_file(f.content) :
        r.panic /\ NextFile(f, r)

\* main.rs:306 and 310: modify_xaml_files(wpfg_installation) returns.
RootFilesDone ==
    /\ pc = "file" /\ remaining = {} /\ dirIdx = 0
    /\ wpfgEntries' = cur
    /\ dirIdx' = 1
    /\ pc' = "files"
    /\ UNCHANGED <<installation, remaining, cur, modEntries, dest, written, prevMod,
                   patchVars>>

\* main.rs:314-320: the subdirectory's files are inserted under its name.
SubdirectoryDone ==
    /\ pc = "file" /\ remaining = {} /\ dirIdx >= 1
    /\ wpfgEntries' = insert(wpfgEntries, Subdirectory(DirName(dirIdx), cur))
    /\ dirIdx' = dirIdx + 1
    /\ pc' = IF dirIdx < Len(SUBDIRECTORIES) THEN "files" ELSE "wrap"
    /\ UNCHANGED <<installation, remaining, cur, modEntries, dest, written, prevMod,
                   patchVars>>

\* main.rs:367-383: the result of modify_wpfg goes under resources/_common/wpfg.
ModGenerated ==
    /\ pc = "wrap"
    /\ modEntries' =
          insert(modEntries,
                 Subdirectory("resources",
                    {Subdirectory("_common", {Subdirectory("wpfg", wpfgEntries)})}))
    /\ pc' = NextPc("generated")
    /\ UNCHANGED <<installation, dirIdx, remaining, cur, wpfgEntries, dest, written,
                   prevMod, patchVars>>

\* main.rs:407-422: metadata of the destination; assert!(exists.is_dir()).
InspectDestination ==
    /\ pc = "inspect"
    /\ pc' = CASE dest.kind = "dir" -> "clear"
               [] dest.kind = "file" -> "panicked"
               [] OTHER -> NextPc("cleared")
    /\ UNCHANGED <<installation, dirIdx, remaining, cur, wpfgEntries, modEntries, dest,
                   written, prevMod, patchVars>>

\* main.rs:414-415: remove_dir_all
ClearDestination ==
    /\ pc = "clear"
    /\ dest' = [kind |-> "absent", files |-> {}]
    /\ pc' = NextPc("cleared")
    /\ UNCHANGED <<installation, dirIdx, remaining, cur, wpfgEntries, modEntries,
                   written, prevMod, patchVars>>

\* main.rs:427-432 with 99: the next create_file call of write_directory.
CreateFile ==
    /\ pc = "write"
    /\ LET calls == write_directory(modEntries, <<>>)
       IN /\ Len(written) < Len(calls)
          /\ dest' = create_file(dest, calls[Len(written) + 1])
          /\ written' = Append(written, calls[Len(written) + 1])
          /\ pc' = IF Len(written) + 1 = Len(calls) THEN NextPc("written") ELSE pc
    /\ UNCHANGED <<installation, dirIdx, remaining, cur, wpfgEntries, modEntries,
                   prevMod, patchVars>>

\* The program is started again on the same installation.
RunAgain ==
    /\ pc = "done"
    /\ prevMod' = [known |-> TRUE, entries |-> modEntries]
    /\ pc' = "start"
    /\ dirIdx' = 0
    /\ remaining' = {}
    /\ cur' = {}
    /\ wpfgEntries' = {}
    /\ modEntries' = {}
    /\ written' = <<>>
    /\ UNCHANGED <<installation, dest, patchVars>>

Next ==
    \/ CreateInfoJson
    \/ OpenDirectory
    \/ EnumerateFails
    \/ FileReplaced
    \/ FileUnchanged
    \/ FilePanics
    \/ RootFilesDone
    \/ SubdirectoryDone
    \/ ModGenerated
    \/ InspectDestination
    \/ ClearDestination
    \/ CreateFile
    \/ RunAgain

Spec == Init /\ [][Next]_vars

(***************************************************************************)
(* Properties of modify_xaml_files, generate_mod and main (Spec).          *)
(***************************************************************************)
Reading == {"start", "files", "file", "wrap"}
AfterGenerate == {"inspect", "clear", "write", "done"}

\* The files of the directory that the loop at 296 has been through.
Consumed(idx) ==
    LET all == installation[DirName(idx)].files
    IN CASE pc = "start" -> {}
         [] pc \in AfterGenerate \cup {"wrap"} -> all
         [] idx < dirIdx -> all
         [] idx = dirIdx /\ pc = "file" -> all \ remaining
         [] idx = dirIdx /\ pc = "panicked" /\ installation[DirName(idx)].readable ->
               all \ remaining
         [] OTHER -> {}

\* Some element of the document is one a patch rule is about.
HasRuleMatch(content) ==
    LET doc == read_xml(decode_with_bom_removal(content)).nodes
    IN \E id \in Attached(doc, 1) : IsEffect(doc[id]) \/ IsFadeRectangle(doc[id])

PatchedContents(content) == {r.value : r \in {x \in modify_xaml_file(content) : x.some}}

\* C1: while modify_xaml_files runs and when it returns, a file it has been
\* through that no rule matches has no entry under its name, a file that a
\* rule matches has exactly one entry under its name, a File holding a patched
\* content of that file, and no entry holds the bytes of an unchanged file.
C1_OnlyChangedFilesStaged ==
    pc = "file" =>
       /\ \A f \in Consumed(dirIdx) :
             IF HasRuleMatch(f.content)
             THEN /\ Cardinality({e \in cur : e.name = f.name}) = 1
                  /\ \A e \in cur :
                        e.name = f.name =>
                           e.kind = "File" /\ e.content \in PatchedContents(f.content)
             ELSE f.name \notin Keys(cur)
       /\ \A f \in installation[DirName(dirIdx)].files :
             ~HasRuleMatch(f.content) => File(f.name, f.content) \notin cur
       /\ Keys(cur) \subseteq {f.name : f \in Consumed(dirIdx)}

C1_Witness ==
    /\ pc = "file"
    /\ remaining = {}
    /\ \E f, g \in installation[DirName(dirIdx)].files :
          /\ HasRuleMatch(f.content)
          /\ f.name \in Keys(cur)
          /\ ~HasRuleMatch(g.content)
          /\ g.name \notin Keys(cur)

\* An entry of m that m2 has another entry for under the same name.
Overwritten(m, m2) == \E e \in m : e \notin m2 /\ e.name \in Keys(m2)

\* C5: no step that goes on replaces the entry a map of the tree under
\* construction already has under a name; an insertion under a name that is
\* present ends the run.
C5_NoSilentOverwrite ==
    [][pc' # "panicked" =>
          /\ ~Overwritten(cur, cur')
          /\ ~Overwritten(wpfgEntries, wpfgEntries')
          /\ ~Overwritten(modEntries, modEntries')]_vars

HasInvalidByte(content) == \E k \in 1..Len(content) : content[k].t = "invalid"

\* C6: once a file whose bytes are not valid UTF-8 has been through
\* modify_xaml_file the run has failed: no result is staged for it, the loop
\* does not go on, and no tree is produced or written.
C6_InvalidUtf8IsFatal ==
    \A idx \in 0..Len(SUBDIRECTORIES) :
       \A f \in Consumed(idx) : HasInvalidByte(f.content) => pc = "panicked"

\* C8: the tree generate_mod returns is the same in every run on the same
\* installation, whatever the order the files were enumerated in, and
\* write_directory emits the entries of every directory in ascending order
\* of their names.
RECURSIVE PathLess(_, _)
PathLess(p, q) ==
    IF p = <<>> \/ q = <<>> THEN FALSE
    ELSE IF p[1] = q[1] THEN PathLess(Tail(p), Tail(q))
    ELSE NameLess(p[1], q[1])
WriteOrderAscending ==
    \A k \in 1..(Len(written) - 1) : PathLess(written[k].path, written[k + 1].path)
C8_SameTreeEveryRun ==
    /\ (prevMod.known /\ pc \in AfterGenerate) => modEntries = prevMod.entries
    /\ WriteOrderAscending

\* C10: generate_mod has finished before the destination is inspected,
\* cleared or written; the destination changes in the clearing step and in
\* create_file only; it is cleared before the first create_file; a file
\* written in this run stays in the destination.
GenerateFinished ==
    /\ dirIdx = Len(SUBDIRECTORIES) + 1
    /\ remaining = {}
    /\ Keys(modEntries) = {"info.json", "resources"}
C10_ReadClearWrite ==
    /\ [](pc \in AfterGenerate => GenerateFinished)
    /\ [](pc \in Reading \cup {"inspect", "clear"} => written = <<>>)
    /\ [](pc = "write" /\ written = <<>> => dest.kind = "absent")
    /\ [](\A k \in 1..Len(written) : written[k] \in dest.files)
    /\ [][(pc \in Reading \cup {"inspect"}) => (dest' = dest)]_vars
    /\ [][(dest'.kind = "absent" /\ dest.kind # "absent") =>
             (pc = "clear" /\ written = <<>>)]_vars

C10_Witness ==
    /\ pc = "done"
    /\ prevMod.known
    /\ Len(written) >= 2
    /\ \A k \in 1..Len(written) : written[k] \in dest.files
    /\ StaleFile \notin dest.files

====
